---- MODULE Spec2Model ----
(***************************************************************************)
(* Client-side MFA orchestration of three Lightning web components:        *)
(*   "enroll" : SalesforceAuthRegistration (mfa_implementation.js)         *)
(*   "phone"  : PhoneVerification (phoneVerification.js)                   *)
(*   "auth"   : AuthenticatorVerify (unnamed/part_000)                     *)
(* A behaviour follows ONE component instance (the instances share no      *)
(* state); `component` says which class it is.  Strings are sequences of   *)
(* one-character strings, '' is <<>>.  Apex calls are promises: a call     *)
(* puts a request into `inflight`, and its then/catch(/finally) callbacks  *)
(* run later as one step, in any order with respect to other events.       *)
(* A handler is a method with no precondition but its own early returns,   *)
(* so it can run in any state of a connected instance.  Left out: the view *)
(* flag showManualEntry with handleToggleManualEntry, and handleCopyKey,    *)
(* which touch no other field and issue no Apex call.                      *)
(***************************************************************************)
EXTENDS Naturals, Sequences, FiniteSets

VARIABLES
    component,            \* which class this instance is
    connected,            \* connectedCallback has run
    isRegistered, isLoading, showRegistrationFlow, qrCodeUrl, registrationId,
    manualEntryKey, accountName, registrationStep,
    verificationCode,     \* fields of the instance
    phoneNumber, codeSent, verificationSuccess, errorMessage,
    inflight,             \* Apex calls whose promise is not settled yet
    calls,                \* number of Apex calls issued so far
    signals,              \* CustomEvents dispatched to the embedding page, in order
    toasts,               \* variants of the ShowToastEvents of the latest step
    statusAtStart,        \* isRegistered when handleStartRegistration last ran
    lastStart,            \* id of the latest initiateAuthenticatorRegistration call
    afterCancel,          \* a cancel from step 2/3 ran and no handler since
    sentTo,               \* <<number>> of the latest sendVerificationCode call resolved
    input, output         \* argument and <<result>> of a function applied on its own

vars == <<component, connected, isRegistered, isLoading, showRegistrationFlow,
          qrCodeUrl, registrationId, manualEntryKey, accountName,
          registrationStep, verificationCode, phoneNumber, codeSent,
          verificationSuccess, errorMessage, inflight, calls, signals, toasts,
          statusAtStart, lastStart, afterCancel, sentTo, input, output>>

\* what no handler of a component writes
instance == <<component, input, output>>

enrollFields == <<isRegistered, showRegistrationFlow, qrCodeUrl, registrationId,
                  manualEntryKey, accountName, registrationStep>>
phoneFields == <<phoneNumber, codeSent, sentTo, verificationSuccess, errorMessage>>
sessionFields == <<qrCodeUrl, registrationId, manualEntryKey, accountName>>

----------------------------------------------------------------------------
(* Bounds and program constants *)

\* Apex calls one instance issues in a behaviour; the phone component carries
\* more data in each call and gets the smaller bound
MaxCalls == 4
MaxPhoneCalls == 3

\* Apex calls of one instance that may be outstanding together
MaxInflight == 2

\* characters of a raw value given to the normalizer on its own
MaxRawLen == 8

\* digits after the first one in a number given to the validation on its own
MaxTyped == 16

\* length of a verification code
CodeLength == 6

\* the regex quantifier \d{1,14} of validatePhoneNumber
MinMoreDigits == 1
MaxMoreDigits == 14

StepInitial == 1
StepQRCode == 2
StepVerification == 3

----------------------------------------------------------------------------
(* Strings *)

Digit == {"0", "1", "2", "3", "4", "5", "6", "7", "8", "9"}
NonZeroDigit == Digit \ {"0"}
Whitespace == {" "}

Min(a, b) == IF a < b THEN a ELSE b

\* s.replace(/\D/g, '')
StripNonDigits(s) == SelectSeq(s, LAMBDA c : c \in Digit)

\* s.slice(0, n)
Slice(s, n) == SubSeq(s, 1, Min(n, Len(s)))

\* variant: slice(0, 6) alone, the replace is left out
NormalizeUnstripped(raw) == Slice(raw, CodeLength)

\* (value || '').replace(/\D/g, '').slice(0, 6)
Normalize(raw) == Slice(StripNonDigits(raw), CodeLength)

RECURSIVE TrimStart(_)
TrimStart(s) == IF s # <<>> /\ Head(s) \in Whitespace THEN TrimStart(Tail(s)) ELSE s

RECURSIVE TrimEnd(_)
TrimEnd(s) ==
    IF s # <<>> /\ s[Len(s)] \in Whitespace THEN TrimEnd(SubSeq(s, 1, Len(s) - 1)) ELSE s

\* s.trim()
Trim(s) == TrimEnd(TrimStart(s))

\* raw values a code-change event can deliver
RawCodes ==
    { <<>>,
      <<"1", "2", " ", "3", "4", " ", "5", "6", "7">>,
      <<"0", "0", "0", "0", "0", "0">>,
      <<"1", "2", "3", "4", "5", "a">> }

\* result.accountName: the label of the running user, the same in every response
AccountLabel == <<"u">>

\* an opaque non-empty value the server made for call n
Token(n) == <<n>>

\* rejections an Apex promise can carry: {body: {message}} or neither field
Errors ==
    { [body |-> "server message", message |-> "error message"],
      [body |-> "", message |-> ""] }

\* the three getErrorMessage methods differ in the fallback only
ErrorMessageOr(error, fallback) ==
    IF error.body # "" THEN error.body
    ELSE IF error.message # "" THEN error.message
    ELSE fallback

\* new ShowToastEvent({title, message, variant}); message is the tuple of the
\* parts the code concatenates
Toast(title, message, variant) ==
    [title |-> title, message |-> message, variant |-> variant]

\* showToast(...) called once in this step
showToast(title, message, variant) == toasts' = <<Toast(title, message, variant)>>

noToast == toasts' = <<>>

----------------------------------------------------------------------------
(* Apex calls *)

Request(op, regId, phone, code) ==
    [id |-> calls + 1, op |-> op, registrationId |-> regId, phoneNumber |-> phone,
     code |-> code, cancelled |-> FALSE]

CanCall ==
    /\ Cardinality(inflight) < MaxInflight
    /\ calls < (IF component = "phone" THEN MaxPhoneCalls ELSE MaxCalls)

\* the promise of `op` with these arguments is created
Call(op, regId, phone, code) ==
    /\ CanCall
    /\ inflight' = inflight \cup {Request(op, regId, phone, code)}
    /\ calls' = calls + 1

Settle(r) == inflight' = inflight \ {r}

Pending(op) == {r \in inflight : r.op = op}

\* the calls whose response belongs to the enrollment session
SessionCalls == {"initiateAuthenticatorRegistration", "verifyRegistration"}

----------------------------------------------------------------------------
(* SalesforceAuthRegistration *)

showInitialView == ~showRegistrationFlow /\ ~isRegistered
showRegisteredView == ~showRegistrationFlow /\ isRegistered
showQRCodeStep == showRegistrationFlow /\ registrationStep = StepQRCode
showVerificationStep == showRegistrationFlow /\ registrationStep = StepVerification

Enroll == component = "enroll" /\ connected

getErrorMessage(error) == ErrorMessageOr(error, "Unknown error occurred")

\* result.message, result.errorMessage: server text, passed through
ResultMessage == "result.message"
ResultErrorMessage == "result.errorMessage"

\* a handler other than cancel starts: the ghost afterCancel ends
Handler == afterCancel' = FALSE /\ UNCHANGED <<statusAtStart, lastStart>>

connectedCallback ==
    /\ component = "enroll" /\ ~connected
    /\ connected' = TRUE
    /\ isLoading' = TRUE
    /\ Call("isAuthenticatorRegistered", <<>>, <<>>, <<>>)
    /\ noToast
    /\ UNCHANGED <<instance, enrollFields, verificationCode, phoneFields, signals,
                   statusAtStart, lastStart, afterCancel>>

checkRegistrationStatusThen(r, result) ==
    /\ isRegistered' = result
    /\ isLoading' = FALSE
    /\ noToast
    /\ Settle(r)
    /\ UNCHANGED <<showRegistrationFlow, sessionFields,
                   registrationStep>>

checkRegistrationStatusCatch(r, error) ==
    /\ showToast("Error", <<"Failed to check registration status: ",
                            getErrorMessage(error)>>, "error")
    /\ isLoading' = FALSE
    /\ Settle(r)
    /\ UNCHANGED enrollFields

checkRegistrationStatusSettled ==
    /\ Enroll
    /\ \E r \in Pending("isAuthenticatorRegistered") :
          \/ \E result \in BOOLEAN : checkRegistrationStatusThen(r, result)
          \/ \E error \in Errors : checkRegistrationStatusCatch(r, error)
    /\ UNCHANGED <<instance, connected, verificationCode, phoneFields, calls, signals,
                   statusAtStart, lastStart, afterCancel>>

handleStartRegistration ==
    /\ Enroll
    /\ isLoading' = TRUE
    /\ showRegistrationFlow' = TRUE
    /\ Call("initiateAuthenticatorRegistration", <<>>, <<>>, <<>>)
    /\ noToast
    /\ statusAtStart' = isRegistered
    /\ lastStart' = calls + 1
    /\ afterCancel' = FALSE
    /\ UNCHANGED <<instance, connected, isRegistered, sessionFields,
                   registrationStep, verificationCode, phoneFields, signals>>

\* result.success: the payload of call r; qrCodeUrl and manualEntryKey come together
handleStartRegistrationSuccess(r, hasSecret) ==
    /\ qrCodeUrl' = IF hasSecret THEN Token(r.id) ELSE <<>>
    /\ registrationId' = Token(r.id)
    /\ manualEntryKey' = IF hasSecret THEN Token(r.id) ELSE <<>>
    /\ accountName' = AccountLabel
    /\ registrationStep' = StepQRCode
    /\ isLoading' = FALSE
    /\ showToast("Success",
                 <<"QR Code generated. Please scan with Salesforce Authenticator app.">>,
                 "success")
    /\ Settle(r)
    /\ UNCHANGED <<isRegistered, showRegistrationFlow>>

\* success:false
handleStartRegistrationFailure(r) ==
    /\ showToast("Error", <<ResultErrorMessage>>, "error")
    /\ isLoading' = FALSE
    /\ showRegistrationFlow' = FALSE
    /\ Settle(r)
    /\ UNCHANGED <<isRegistered, sessionFields, registrationStep>>

handleStartRegistrationCatch(r, error) ==
    /\ showToast("Error", <<"Failed to initiate registration: ", getErrorMessage(error)>>,
                 "error")
    /\ isLoading' = FALSE
    /\ showRegistrationFlow' = FALSE
    /\ Settle(r)
    /\ UNCHANGED <<isRegistered, sessionFields, registrationStep>>

handleStartRegistrationSettled ==
    /\ Enroll
    /\ \E r \in Pending("initiateAuthenticatorRegistration") :
          \/ \E hasSecret \in BOOLEAN : handleStartRegistrationSuccess(r, hasSecret)
          \/ handleStartRegistrationFailure(r)
          \/ \E error \in Errors : handleStartRegistrationCatch(r, error)
    /\ UNCHANGED <<instance, connected, verificationCode, phoneFields, calls, signals,
                   statusAtStart, lastStart, afterCancel>>

handleScannedQRCode ==
    /\ Enroll
    /\ registrationStep' = StepVerification
    /\ verificationCode' = <<>>
    /\ noToast
    /\ Handler
    /\ UNCHANGED <<instance, connected, isRegistered, isLoading, showRegistrationFlow,
                   sessionFields, phoneFields, inflight, calls,
                   signals>>

handleVerificationCodeChange ==
    /\ Enroll
    /\ \E raw \in RawCodes : verificationCode' = Normalize(raw)
    /\ noToast
    /\ Handler
    /\ UNCHANGED <<instance, connected, enrollFields, isLoading, phoneFields,
                   inflight, calls, signals>>

\* the early return of handleVerifyManually / handleVerify
CodeRejected(code) == Len(code) # CodeLength

handleVerifyManually ==
    /\ Enroll
    /\ LET code == Trim(verificationCode) IN
          IF CodeRejected(code)
          THEN /\ showToast("Invalid Code",
                            <<"Please enter the 6-digit code from your authenticator app.">>,
                            "warning")
               /\ UNCHANGED <<isLoading, inflight, calls>>
          ELSE /\ isLoading' = TRUE
               /\ Call("verifyRegistration", registrationId, <<>>, code)
               /\ noToast
    /\ Handler
    /\ UNCHANGED <<instance, connected, enrollFields, verificationCode, phoneFields,
                   signals>>

handleVerifyManuallySuccess(r) ==
    /\ isLoading' = FALSE
    /\ isRegistered' = TRUE
    /\ showRegistrationFlow' = FALSE
    /\ registrationStep' = StepInitial
    /\ verificationCode' = <<>>
    /\ showToast("Success!", <<ResultMessage>>, "success")
    /\ signals' = Append(signals, [name |-> "registrationcomplete",
                                   detail |-> [registered |-> TRUE]])
    /\ Settle(r)
    /\ UNCHANGED <<sessionFields>>

\* a failure that throws the challenge away and starts over
handleVerifyManuallyFailureStartsOver(r) ==
    /\ isLoading' = FALSE
    /\ showToast("Verification Failed", <<ResultMessage>>, "error")
    /\ showRegistrationFlow' = FALSE
    /\ registrationStep' = StepInitial
    /\ registrationId' = <<>>
    /\ Settle(r)
    /\ UNCHANGED <<isRegistered, qrCodeUrl, manualEntryKey, accountName,
                   verificationCode, signals>>

\* success:false
handleVerifyManuallyFailure(r) ==
    /\ isLoading' = FALSE
    /\ showToast("Verification Failed", <<ResultMessage>>, "error")
    /\ Settle(r)
    /\ UNCHANGED <<enrollFields, verificationCode, signals>>

handleVerifyManuallyCatch(r, error) ==
    /\ isLoading' = FALSE
    /\ showToast("Error", <<"Verification failed: ", getErrorMessage(error)>>, "error")
    /\ Settle(r)
    /\ UNCHANGED <<enrollFields, verificationCode, signals>>

handleVerifyManuallySettled ==
    /\ Enroll
    /\ \E r \in Pending("verifyRegistration") :
          \/ handleVerifyManuallySuccess(r)
          \/ handleVerifyManuallyFailure(r)
          \/ \E error \in Errors : handleVerifyManuallyCatch(r, error)
    /\ UNCHANGED <<instance, connected, phoneFields, calls, statusAtStart, lastStart,
                   afterCancel>>

\* variant: the manual entry key is not cleared
handleCancelRegistrationKeepsKey ==
    /\ Enroll
    /\ showRegistrationFlow' = FALSE
    /\ registrationStep' = StepInitial
    /\ qrCodeUrl' = <<>>
    /\ registrationId' = <<>>
    /\ UNCHANGED manualEntryKey
    /\ verificationCode' = <<>>
    /\ noToast
    /\ inflight' = {IF r.op \in SessionCalls THEN [r EXCEPT !.cancelled = TRUE] ELSE r :
                       r \in inflight}
    /\ afterCancel' = (showQRCodeStep \/ showVerificationStep)
    /\ UNCHANGED <<instance, connected, isRegistered, isLoading, accountName, phoneFields, calls, signals, statusAtStart, lastStart>>

handleCancelRegistration ==
    /\ Enroll
    /\ showRegistrationFlow' = FALSE
    /\ registrationStep' = StepInitial
    /\ qrCodeUrl' = <<>>
    /\ registrationId' = <<>>
    /\ manualEntryKey' = <<>>
    /\ verificationCode' = <<>>
    /\ noToast
    /\ inflight' = {IF r.op \in SessionCalls THEN [r EXCEPT !.cancelled = TRUE] ELSE r :
                       r \in inflight}
    /\ afterCancel' = (showQRCodeStep \/ showVerificationStep)
    /\ UNCHANGED <<instance, connected, isRegistered, isLoading, accountName, phoneFields, calls, signals, statusAtStart, lastStart>>

\* confirm(...) answered false
handleRemoveRegistrationDeclined ==
    /\ Enroll
    /\ noToast
    /\ Handler
    /\ UNCHANGED <<instance, connected, enrollFields, isLoading, verificationCode,
                   phoneFields, inflight, calls, signals>>

handleRemoveRegistration ==
    /\ Enroll
    /\ isLoading' = TRUE
    /\ Call("removeAuthenticatorRegistration", <<>>, <<>>, <<>>)
    /\ noToast
    /\ Handler
    /\ UNCHANGED <<instance, connected, enrollFields, verificationCode, phoneFields,
                   signals>>

\* the then handler without its `if (result)`
handleRemoveRegistrationThenUnchecked(r, result) ==
    /\ isRegistered' = FALSE
    /\ isLoading' = FALSE
    /\ showToast("Success", <<"Authenticator registration removed successfully.">>,
                 "success")
    /\ signals' = Append(signals, [name |-> "registrationremoved",
                                   detail |-> [registered |-> FALSE]])
    /\ Settle(r)

handleRemoveRegistrationThen(r, result) ==
    /\ IF result
       THEN /\ isRegistered' = FALSE
            /\ isLoading' = FALSE
            /\ showToast("Success", <<"Authenticator registration removed successfully.">>,
                         "success")
            /\ signals' = Append(signals, [name |-> "registrationremoved",
                                           detail |-> [registered |-> FALSE]])
       ELSE /\ noToast
            /\ UNCHANGED <<isRegistered, isLoading, signals>>
    /\ Settle(r)

handleRemoveRegistrationCatch(r, error) ==
    /\ isLoading' = FALSE
    /\ showToast("Error", <<"Failed to remove registration: ", getErrorMessage(error)>>,
                 "error")
    /\ Settle(r)
    /\ UNCHANGED <<isRegistered, signals>>

handleRemoveRegistrationSettled ==
    /\ Enroll
    /\ \E r \in Pending("removeAuthenticatorRegistration") :
          \/ \E result \in BOOLEAN : handleRemoveRegistrationThen(r, result)
          \/ \E error \in Errors : handleRemoveRegistrationCatch(r, error)
    /\ UNCHANGED <<instance, connected, showRegistrationFlow, sessionFields, registrationStep, verificationCode, phoneFields,
                   calls, statusAtStart, lastStart, afterCancel>>

NextEnroll ==
    \/ connectedCallback
    \/ checkRegistrationStatusSettled
    \/ handleStartRegistration
    \/ handleStartRegistrationSettled
    \/ handleScannedQRCode
    \/ handleVerificationCodeChange
    \/ handleVerifyManually
    \/ handleVerifyManuallySettled
    \/ handleCancelRegistration
    \/ handleRemoveRegistrationDeclined
    \/ handleRemoveRegistration
    \/ handleRemoveRegistrationSettled

----------------------------------------------------------------------------
(* PhoneVerification *)

Phone == component = "phone"

\* values the phone input can deliver
PhoneInputs ==
    { <<>>,
      <<"+", "1", " ", "2", "3", "4", "-", "5", "6", "7", "8", "9", "0">>,
      <<"+", "0", "1", "2", "3", "4", "5", "6", "7", "8", "9">> }

PhoneVerification_getErrorMessage(error) ==
    ErrorMessageOr(error, "An unexpected error occurred")

\* s.replace(/[\s-]/g, '')
StripSeparators(s) == SelectSeq(s, LAMBDA c : c \notin Whitespace \cup {"-"})

\* variant: /^\+?\d{2,15}$/, a leading zero is let through
PhoneRegexTestAnyFirst(s) ==
    LET t == IF s # <<>> /\ Head(s) = "+" THEN Tail(s) ELSE s IN
    /\ Len(t) >= 1 + MinMoreDigits
    /\ Len(t) <= 1 + MaxMoreDigits
    /\ \A i \in 1..Len(t) : t[i] \in Digit

\* /^\+?[1-9]\d{1,14}$/.test(s)
PhoneRegexTest(s) ==
    LET t == IF s # <<>> /\ Head(s) = "+" THEN Tail(s) ELSE s IN
    /\ Len(t) >= 1 + MinMoreDigits
    /\ Len(t) <= 1 + MaxMoreDigits
    /\ t[1] \in NonZeroDigit
    /\ \A i \in 2..Len(t) : t[i] \in Digit

\* the errorMessage validatePhoneNumber sets, "" when it sets none
validationError(phone) ==
    IF phone = <<>> THEN "Please enter a phone number"
    ELSE IF ~PhoneRegexTest(StripSeparators(phone))
         THEN "Please enter a valid phone number with country code (e.g., +1234567890)"
         ELSE ""

\* variant: only the emptiness test, the pattern is not consulted
validatePhoneNumberNonEmpty(phone) == phone # <<>>

validatePhoneNumber(phone) == validationError(phone) = ""

notEnroll == UNCHANGED <<instance, connected, enrollFields, statusAtStart, lastStart, afterCancel>>

handlePhoneChange ==
    /\ Phone
    /\ \E value \in PhoneInputs : phoneNumber' = value
    /\ errorMessage' = ""
    /\ noToast
    /\ UNCHANGED <<verificationCode, codeSent, sentTo, verificationSuccess, isLoading,
                   inflight, calls, signals>>
    /\ notEnroll

PhoneVerification_handleCodeChange ==
    /\ Phone
    /\ \E value \in RawCodes : verificationCode' = value
    /\ errorMessage' = ""
    /\ noToast
    /\ UNCHANGED <<phoneNumber, codeSent, sentTo, verificationSuccess, isLoading, inflight,
                   calls, signals>>
    /\ notEnroll

\* the body of handleSendCode
SendCode ==
    IF ~validatePhoneNumber(phoneNumber)
    THEN /\ errorMessage' = validationError(phoneNumber)
         /\ UNCHANGED <<isLoading, inflight, calls>>
    ELSE /\ isLoading' = TRUE
         /\ errorMessage' = ""
         /\ Call("sendVerificationCode", <<>>, phoneNumber, <<>>)

handleSendCode ==
    /\ Phone
    /\ SendCode
    /\ noToast
    /\ UNCHANGED <<phoneNumber, verificationCode, codeSent, sentTo, verificationSuccess,
                   signals>>
    /\ notEnroll

handleSendCodeThen(r) ==
    /\ codeSent' = TRUE
    /\ sentTo' = <<r.phoneNumber>>
    /\ showToast("Success", <<"Verification code sent to your phone">>, "success")
    /\ isLoading' = FALSE
    /\ Settle(r)
    /\ UNCHANGED errorMessage

handleSendCodeCatch(r, error) ==
    /\ errorMessage' = PhoneVerification_getErrorMessage(error)
    /\ showToast("Error", <<PhoneVerification_getErrorMessage(error)>>, "error")
    /\ isLoading' = FALSE
    /\ Settle(r)
    /\ UNCHANGED <<codeSent, sentTo>>

handleSendCodeSettled ==
    /\ Phone
    /\ \E r \in Pending("sendVerificationCode") :
          \/ handleSendCodeThen(r)
          \/ \E error \in Errors : handleSendCodeCatch(r, error)
    /\ UNCHANGED <<phoneNumber, verificationCode, verificationSuccess, calls, signals>>
    /\ notEnroll

\* the early return of handleVerifyCode
PhoneCodeRejected(code) == code = <<>> \/ Len(code) # CodeLength

handleVerifyCode ==
    /\ Phone
    /\ IF PhoneCodeRejected(verificationCode)
       THEN /\ errorMessage' = "Please enter a valid 6-digit code"
            /\ UNCHANGED <<isLoading, inflight, calls>>
       ELSE /\ isLoading' = TRUE
            /\ errorMessage' = ""
            /\ Call("verifyCode", <<>>, phoneNumber, verificationCode)
    /\ noToast
    /\ UNCHANGED <<phoneNumber, verificationCode, codeSent, sentTo, verificationSuccess,
                   signals>>
    /\ notEnroll

handleVerifyCodeThen(r, isValid) ==
    /\ IF isValid
       THEN /\ verificationSuccess' = TRUE
            /\ showToast("Success", <<"Phone number verified successfully!">>, "success")
            /\ signals' = Append(signals, [name |-> "verified",
                                           detail |-> [phoneNumber |-> phoneNumber]])
            /\ UNCHANGED errorMessage
       ELSE /\ errorMessage' = "Invalid verification code. Please try again."
            /\ showToast("Error", <<"Invalid verification code. Please try again.">>,
                         "error")
            /\ UNCHANGED <<verificationSuccess, signals>>
    /\ isLoading' = FALSE
    /\ Settle(r)

handleVerifyCodeCatch(r, error) ==
    /\ errorMessage' = PhoneVerification_getErrorMessage(error)
    /\ showToast("Error", <<PhoneVerification_getErrorMessage(error)>>, "error")
    /\ isLoading' = FALSE
    /\ Settle(r)
    /\ UNCHANGED <<verificationSuccess, signals>>

handleVerifyCodeSettled ==
    /\ Phone
    /\ \E r \in Pending("verifyCode") :
          \/ \E isValid \in BOOLEAN : handleVerifyCodeThen(r, isValid)
          \/ \E error \in Errors : handleVerifyCodeCatch(r, error)
    /\ UNCHANGED <<phoneNumber, verificationCode, codeSent, sentTo, calls>>
    /\ notEnroll

handleResendCode ==
    /\ Phone
    /\ verificationCode' = <<>>
    /\ SendCode
    /\ noToast
    /\ UNCHANGED <<phoneNumber, codeSent, sentTo, verificationSuccess, signals>>
    /\ notEnroll

handleChangePhone ==
    /\ Phone
    /\ codeSent' = FALSE
    /\ verificationCode' = <<>>
    /\ phoneNumber' = <<>>
    /\ errorMessage' = ""
    /\ verificationSuccess' = FALSE
    /\ noToast
    /\ UNCHANGED <<sentTo, isLoading, inflight, calls, signals>>
    /\ notEnroll

NextPhone ==
    \/ handlePhoneChange
    \/ PhoneVerification_handleCodeChange
    \/ handleSendCode
    \/ handleSendCodeSettled
    \/ handleVerifyCode
    \/ handleVerifyCodeSettled
    \/ handleResendCode
    \/ handleChangePhone

----------------------------------------------------------------------------
(* AuthenticatorVerify *)

Auth == component = "auth"

AuthenticatorVerify_getErrorMessage(error) ==
    ErrorMessageOr(error, "An unexpected error occurred")

notPhone == UNCHANGED phoneFields

AuthenticatorVerify_handleCodeChange ==
    /\ Auth
    /\ \E raw \in RawCodes : verificationCode' = Normalize(raw)
    /\ noToast
    /\ UNCHANGED <<isLoading, inflight, calls, signals>>
    /\ notEnroll /\ notPhone

handleVerify ==
    /\ Auth
    /\ LET code == Trim(verificationCode) IN
          IF CodeRejected(code)
          THEN /\ showToast("Invalid Code",
                            <<"Please enter the 6-digit code from your authenticator app.">>,
                            "warning")
               /\ UNCHANGED <<isLoading, inflight, calls>>
          ELSE /\ isLoading' = TRUE
               /\ Call("verifyAuthenticatorCode", <<>>, <<>>, code)
               /\ noToast
    /\ UNCHANGED <<verificationCode, signals>>
    /\ notEnroll /\ notPhone

handleVerifySuccess(r) ==
    /\ isLoading' = FALSE
    /\ showToast("Verified", <<ResultMessage>>, "success")
    /\ verificationCode' = <<>>
    /\ signals' = Append(signals, [name |-> "verified", detail |-> [verified |-> TRUE]])
    /\ Settle(r)

\* success:false
handleVerifyFailure(r) ==
    /\ isLoading' = FALSE
    /\ showToast("Verification Failed", <<ResultMessage>>, "error")
    /\ Settle(r)
    /\ UNCHANGED <<verificationCode, signals>>

handleVerifyCatch(r, error) ==
    /\ isLoading' = FALSE
    /\ showToast("Error", <<AuthenticatorVerify_getErrorMessage(error)>>, "error")
    /\ Settle(r)
    /\ UNCHANGED <<verificationCode, signals>>

handleVerifySettled ==
    /\ Auth
    /\ \E r \in Pending("verifyAuthenticatorCode") :
          \/ handleVerifySuccess(r)
          \/ handleVerifyFailure(r)
          \/ \E error \in Errors : handleVerifyCatch(r, error)
    /\ UNCHANGED calls
    /\ notEnroll /\ notPhone

NextAuth ==
    \/ AuthenticatorVerify_handleCodeChange
    \/ handleVerify
    \/ handleVerifySettled

----------------------------------------------------------------------------
(* Specifications *)

InitCommon ==
    /\ inflight = {}
    /\ calls = 0
    /\ signals = <<>>
    /\ toasts = <<>>
    /\ statusAtStart = FALSE
    /\ lastStart = 0
    /\ afterCancel = FALSE

InitEnrollFields ==
    /\ isRegistered = FALSE
    /\ showRegistrationFlow = FALSE
    /\ qrCodeUrl = <<>>
    /\ registrationId = <<>>
    /\ manualEntryKey = <<>>
    /\ accountName = <<>>
    /\ registrationStep = StepInitial

InitPhoneFields ==
    /\ phoneNumber = <<>>
    /\ codeSent = FALSE
    /\ sentTo = <<>>
    /\ verificationSuccess = FALSE
    /\ errorMessage = ""

InitEnroll ==
    /\ component = "enroll"
    /\ input = <<>>
    /\ output = <<>>
    /\ connected = FALSE
    /\ isLoading = TRUE
    /\ verificationCode = <<>>
    /\ InitEnrollFields
    /\ InitPhoneFields
    /\ InitCommon

InitPhone ==
    /\ component = "phone"
    /\ input = <<>>
    /\ output = <<>>
    /\ connected = TRUE
    /\ isLoading = FALSE
    /\ verificationCode = <<>>
    /\ InitEnrollFields
    /\ InitPhoneFields
    /\ InitCommon

InitAuth ==
    /\ component = "auth"
    /\ input = <<>>
    /\ output = <<>>
    /\ connected = TRUE
    /\ isLoading = FALSE
    /\ verificationCode = <<>>
    /\ InitEnrollFields
    /\ InitPhoneFields
    /\ InitCommon

Init == InitEnroll \/ InitPhone \/ InitAuth

Next == NextEnroll \/ NextPhone \/ NextAuth

\* one instance of any of the three components
Spec == Init /\ [][Next]_vars

SpecEnroll == InitEnroll /\ [][NextEnroll]_vars

SpecPhone == InitPhone /\ [][NextPhone]_vars

SpecAuth == InitAuth /\ [][NextAuth]_vars

----------------------------------------------------------------------------
(* The two string functions on their own: the argument is drawn at the
   start, one step applies the function and records the result. *)

InitFunction ==
    /\ output = <<>>
    /\ connected = TRUE
    /\ isLoading = FALSE
    /\ verificationCode = <<>>
    /\ InitEnrollFields
    /\ InitPhoneFields
    /\ InitCommon

applied == UNCHANGED <<component, input, connected, isLoading, verificationCode,
                       enrollFields, phoneFields, inflight, calls, signals, toasts,
                       statusAtStart, lastStart, afterCancel>>

\* event.detail.value: every string of digits, letters and blanks up to MaxRawLen
RawStrings == UNION {[1..n -> {"0", "9", "a", " "}] : n \in 0..MaxRawLen}

InitNormalize ==
    /\ component = "normalize"
    /\ input \in RawStrings
    /\ InitFunction

applyNormalize ==
    /\ component = "normalize"
    /\ output = <<>>
    /\ output' = <<Normalize(input)>>
    /\ applied

SpecNormalize == InitNormalize /\ [][applyNormalize]_vars

Repeat(c, n) == [i \in 1..n |-> c]

\* this.phoneNumber: four sample numbers, the empty and one-character values,
\* and a sign or none, a first character, a separator or none, up to MaxTyped
\* equal digits, an end
PhoneStrings ==
    { <<"+", "1", "2", "3", "4", "5", "6", "7", "8", "9", "0">>,
      <<"1", "2", "3">>,
      <<"+", "0", "1", "2", "3", "4", "5", "6", "7", "8", "9">>,
      <<"1", "2", "3", "4", "5", "6", "7", "8", "9", "0">>,
      <<>>, <<" ">>, <<"+">> }
    \cup
    { sign \o <<first>> \o sep \o Repeat(d, n) \o end :
          sign \in {<<>>, <<"+">>, <<"+", "+">>, <<"-">>},
          first \in {"0", "1", "9", "a"},
          sep \in {<<>>, <<" ">>, <<"-">>, <<".">>},
          d \in {"0", "5"},
          n \in 0..MaxTyped,
          end \in {<<>>, <<"x">>} }

InitValidate ==
    /\ component = "validate"
    /\ input \in PhoneStrings
    /\ InitFunction

applyValidate ==
    /\ component = "validate"
    /\ output = <<>>
    /\ output' = <<validatePhoneNumber(input)>>
    /\ applied

SpecValidate == InitValidate /\ [][applyValidate]_vars

----------------------------------------------------------------------------
(* Properties *)

VerifyCalls == {"verifyRegistration", "verifyCode", "verifyAuthenticatorCode"}

\* this step settles the promise of request r
Settled(r) == \A q \in inflight' : q.id # r.id

\* C1: a verification call is only ever issued with a code whose digits,
\* stripped of every non-digit and cut to 6, number exactly 6; an entry that
\* normalizes to another length never reaches the gateway.
C1_NoVerifyCallUnlessSixDigits ==
    \A r \in inflight : r.op \in VerifyCalls => Len(Normalize(r.code)) = CodeLength

\* C2: an instance has at most one outstanding gateway request.
C2_AtMostOneOutstanding == Cardinality(inflight) <= 1

\* C3: the response to an initiate or verify call that was in flight when
\* cancel ran changes neither the session fields nor the step nor isRegistered.
C3_LateResponseIgnored ==
    [][\A r \in inflight :
          (r.cancelled /\ Settled(r)) =>
              UNCHANGED <<registrationId, qrCodeUrl, manualEntryKey, registrationStep,
                          isRegistered>>]_vars

\* C4: once calls were issued and none is outstanding any more, isLoading is false.
C4_LoadingCleared == (calls > 0 /\ inflight = {}) => ~isLoading

\* C5: right after the success response of verifyRegistration the status is
\* Registered, the step is Initial and registrationId, qrCodeUrl and
\* manualEntryKey are empty.
C5_SuccessDestroysSession ==
    toasts = <<Toast("Success!", <<ResultMessage>>, "success")>> =>
        /\ isRegistered
        /\ registrationStep = StepInitial
        /\ registrationId = <<>>
        /\ qrCodeUrl = <<>>
        /\ manualEntryKey = <<>>

VerificationFailedToast == Toast("Verification Failed", <<ResultMessage>>, "error")

\* C6: a success:false response of verifyRegistration leaves the registration
\* flow, the step, registrationId and isRegistered as they were, and every
\* verifyRegistration call carries the registrationId the instance holds, so
\* the next submit goes against the same challenge.
C6_FailedSubmitKeepsChallenge ==
    [][/\ toasts' = <<VerificationFailedToast>> =>
              UNCHANGED <<showRegistrationFlow, registrationStep, registrationId,
                          isRegistered>>
       /\ \A r \in inflight' :
              (calls' # calls /\ r.id = calls' /\ r.op = "verifyRegistration") =>
                  r.registrationId = registrationId]_vars

\* C6 witness: the failure was just reported in the verification step, the
\* challenge and the entered 6-digit code still there.
C6_Witness ==
    /\ toasts = <<VerificationFailedToast>>
    /\ showVerificationStep
    /\ registrationId # <<>>
    /\ Len(verificationCode) = CodeLength
    /\ ~isLoading

\* C7: after a cancel from the QR or the verification step, and until another
\* handler runs, isRegistered is what it was when handleStartRegistration ran.
C7_CancelRestoresStatus == afterCancel => isRegistered = statusAtStart

RegistrationRemoved == [name |-> "registrationremoved", detail |-> [registered |-> FALSE]]

\* C8: removeAuthenticatorRegistration resolving false, or rejecting, or the
\* user declining, or the call being issued, changes neither isRegistered nor
\* the signals; resolving true sets isRegistered false and raises
\* registrationremoved; a settling remove call takes isRegistered from true
\* to false only by resolving true.
C8_RevokeOnlyOnTrue ==
    [][/\ \A r \in Pending("removeAuthenticatorRegistration") :
              /\ (\/ handleRemoveRegistrationThen(r, FALSE)
                  \/ \E error \in Errors : handleRemoveRegistrationCatch(r, error))
                     => UNCHANGED <<isRegistered, signals>>
              /\ handleRemoveRegistrationThen(r, TRUE) =>
                     /\ ~isRegistered'
                     /\ signals' = Append(signals, RegistrationRemoved)
              /\ (Settled(r) /\ isRegistered /\ ~isRegistered') =>
                     handleRemoveRegistrationThen(r, TRUE)
       /\ \/ UNCHANGED <<isRegistered, signals>>
          \/ ~(handleRemoveRegistrationDeclined \/ handleRemoveRegistration)]_vars

\* C8 witness: a remove call resolved false while registered: no call is left,
\* the status is still Registered and nothing was signalled.
C8_Witness ==
    /\ isRegistered
    /\ isLoading
    /\ calls > 0
    /\ inflight = {}
    /\ \A i \in 1..Len(signals) : signals[i].name # "registrationremoved"

\* the latest step was the catch handler of checkRegistrationStatus
CheckFailed ==
    /\ toasts # <<>>
    /\ toasts[1].message[1] = "Failed to check registration status: "

\* C9: after the status check failed the not-registered initial view is not shown.
C9_FailedCheckStaysUnknown == CheckFailed => ~showInitialView

\* C10: verificationSuccess implies codeSent.
C10_VerifiedImpliesCodeSent == verificationSuccess => codeSent

\* this step dispatched exactly the CustomEvent `name`
Raised(name) ==
    /\ Len(signals') = Len(signals) + 1
    /\ signals'[Len(signals')].name = name

\* C11: a signal is raised in exactly the steps that make the terminal
\* transition: registrationcomplete when a verifyRegistration response takes
\* isRegistered from false to true, registrationremoved when a remove response
\* takes it from true to false, verified (phone) when verificationSuccess
\* becomes true; no other step adds a signal, so the counts are equal.
C11_OneSignalPerTransition ==
    [][/\ signals' # signals =>
              \/ Raised("registrationcomplete") /\ ~isRegistered /\ isRegistered'
              \/ Raised("registrationremoved") /\ isRegistered /\ ~isRegistered'
              \/ Raised("verified") /\ Phone /\ ~verificationSuccess
                                    /\ verificationSuccess'
       /\ \A r \in Pending("verifyRegistration") :
              (Settled(r) /\ ~isRegistered /\ isRegistered') =>
                  Raised("registrationcomplete")
       /\ \A r \in Pending("removeAuthenticatorRegistration") :
              (Settled(r) /\ isRegistered /\ ~isRegistered') =>
                  Raised("registrationremoved")
       /\ (Phone /\ ~verificationSuccess /\ verificationSuccess') => Raised("verified")
      ]_<<signals, isRegistered, verificationSuccess>>

\* this step ended an operation: a call other than the status check settled,
\* or a handler returned early on its validation
OperationEnded ==
    \/ \E r \in inflight : r.op # "isAuthenticatorRegistered" /\ Settled(r)
    \/ /\ calls' = calls
       /\ \/ handleVerifyManually
          \/ handleVerify
          \/ handleVerifyCode
          \/ handleSendCode
          \/ handleResendCode

\* C12: every step that ends an operation, by a response of the gateway or
\* by a local rejection, shows exactly one toast.
C12_OneToastPerOutcome == [][OperationEnded => Len(toasts') = 1]_vars

\* an optional "+", then 2 to 15 decimal digits of which the first is not
\* zero, blanks and hyphens set aside
WellFormed(number) ==
    LET kept == SelectSeq(number, LAMBDA c : c # " " /\ c # "-")
        digits == IF kept # <<>> /\ kept[1] = "+" THEN SubSeq(kept, 2, Len(kept))
                  ELSE kept
    IN  /\ Len(digits) \in 2..15
        /\ digits[1] # "0"
        /\ \A i \in 1..Len(digits) : digits[i] \in Digit

\* C13: handleSendCode and handleResendCode issue no call and leave codeSent
\* and verificationSuccess alone when phoneNumber is empty or ill-formed; a
\* rejected sendVerificationCode leaves codeSent as it was; codeSent only
\* becomes true in a step where a sendVerificationCode call resolves.
C13_SendCodeOnlyWhenValid ==
    [][/\ \/ /\ calls' = calls
             /\ inflight' = inflight
             /\ codeSent' = codeSent
             /\ verificationSuccess' = verificationSuccess
          \/ WellFormed(phoneNumber)
          \/ ~(handleSendCode \/ handleResendCode)
       /\ \A r \in Pending("sendVerificationCode") :
              (Settled(r) /\ toasts'[1].variant = "error") => codeSent' = codeSent
       /\ (~codeSent /\ codeSent') =>
              \E r \in Pending("sendVerificationCode") :
                  Settled(r) /\ toasts'[1].variant = "success"
      ]_vars

\* an ill-formed number was refused before any call
C13_Witness ==
    /\ Phone
    /\ phoneNumber # <<>>
    /\ errorMessage =
           "Please enter a valid phone number with country code (e.g., +1234567890)"
    /\ calls = 0
    /\ ~codeSent

\* C14: qrCodeUrl and manualEntryKey are both empty or both non-empty.
C14_KeyAndQrTogether == (qrCodeUrl = <<>>) <=> (manualEntryKey = <<>>)

\* the response of a start arrived after the flow was cancelled
C14_Witness ==
    /\ Enroll
    /\ qrCodeUrl # <<>>
    /\ manualEntryKey # <<>>
    /\ ~showRegistrationFlow
    /\ ~isRegistered

\* C15: verificationCode holds at most six characters, all decimal digits.
C15_CodeIsDigitsUpToSix ==
    /\ Len(verificationCode) <= CodeLength
    /\ \A i \in 1..Len(verificationCode) : verificationCode[i] \in Digit

\* C16: the normalizer returns at most six characters, all decimal digits,
\* and applied to its own result returns that result.
C16_NormalizerDigitsIdempotent ==
    (component = "normalize" /\ output # <<>>) =>
        LET code == output[1] IN
        /\ Len(code) <= 6
        /\ \A i \in 1..Len(code) : code[i] \in {"0", "1", "2", "3", "4", "5", "6", "7", "8", "9"}
        /\ Normalize(code) = code

\* a raw value with a character to drop and digits to cut off went through
C16_Witness ==
    /\ component = "normalize"
    /\ output # <<>>
    /\ \E i \in 1..Len(input) : input[i] \notin Digit
    /\ Len(output[1]) = CodeLength
    /\ \E i \in 1..Len(input) : input[i] \in Digit /\ i > CodeLength + 1

\* C17, with "123" refused: validation accepts exactly an optional "+" and 2 to 15
\* digits, the first not zero, spaces and hyphens set aside; "+1234567890"
\* and "1234567890" pass, "123" and "+0123456789" fail.
C17_AcceptsPatternAnd123Fails ==
    (component = "validate" /\ output # <<>>) =>
        /\ output[1] = WellFormed(input)
        /\ input = <<"+", "1", "2", "3", "4", "5", "6", "7", "8", "9", "0">> => output[1]
        /\ input = <<"1", "2", "3">> => ~output[1]
        /\ input = <<"+", "0", "1", "2", "3", "4", "5", "6", "7", "8", "9">> => ~output[1]
        /\ input = <<"1", "2", "3", "4", "5", "6", "7", "8", "9", "0">> => output[1]

\* C17, with "123" accepted: validation accepts exactly an optional "+" and 2 to 15
\* digits, the first not zero, spaces and hyphens set aside; "+1234567890",
\* "1234567890" and "123" pass, "+0123456789" fails.
C17_AcceptsPattern ==
    (component = "validate" /\ output # <<>>) =>
        /\ output[1] = WellFormed(input)
        /\ input = <<"+", "1", "2", "3", "4", "5", "6", "7", "8", "9", "0">> => output[1]
        /\ input = <<"1", "2", "3">> => output[1]
        /\ input = <<"+", "0", "1", "2", "3", "4", "5", "6", "7", "8", "9">> => ~output[1]
        /\ input = <<"1", "2", "3", "4", "5", "6", "7", "8", "9", "0">> => output[1]

\* "123" was validated and passed
C17_Witness ==
    /\ component = "validate"
    /\ input = <<"1", "2", "3">>
    /\ output = <<TRUE>>

\* C18: the verified event of the phone component carries the phoneNumber
\* that was passed to the verifyCode call whose result raised it.
C18_VerifiedCarriesCallNumber ==
    [][\A r \in Pending("verifyCode") :
           (Settled(r) /\ Raised("verified")) =>
               signals'[Len(signals')].detail.phoneNumber = r.phoneNumber
      ]_vars

\* C19: once a code has been sent, every verifyCode call and every call of
\* handleResendCode passes the phoneNumber of the latest sendVerificationCode
\* call that resolved.
C19_CallsCarrySentNumber ==
    [][((handleVerifyCode \/ handleResendCode) /\ codeSent /\ calls' # calls) =>
           sentTo = <<phoneNumber>>
      ]_vars

\* C20: every verifyRegistration call made from the verification step passes
\* a non-empty registrationId, the one returned for the latest
\* initiateAuthenticatorRegistration call.
C20_SubmitAgainstLatestStart ==
    [][(handleVerifyManually /\ showVerificationStep /\ calls' # calls) =>
           /\ registrationId # <<>>
           /\ registrationId = Token(lastStart)
      ]_vars

====
